---- MODULE Spec2Model ----
(***************************************************************************)
(* Model of the slide Seeder (seedSlides) and of the read-only Query       *)
(* Service (GET / and GET /:id) acting on one "slides" collection.         *)
(*                                                                         *)
(* One action is one run-to-completion segment of JavaScript: the code     *)
(* between two awaits runs atomically on the single-threaded event loop;   *)
(* the document store settles the awaited calls in between.                *)
(***************************************************************************)
EXTENDS Integers, Sequences, FiniteSets, Bags, TLC

\* ---------------------------------------------------------------- bounds
MaxFiles       == 3   \* longest directory listing when the Seeder is alone
MaxRuns        == 2   \* Seeder runs, one after the other, when the Seeder is alone
MaxServedFiles == 2   \* longest directory listing while the Query Service is serving
MaxServedRuns  == 1   \* Seeder runs while the Query Service is serving
MaxReqs        == 2   \* HTTP requests received by the Query Service

\* ------------------------------------------------------- directory entries
\* File names are sequences of characters, so that endsWith is computed.
NameA == <<"a", ".", "j", "s", "o", "n">>
NameB == <<"b", ".", "j", "s", "o", "n">>
NameT == <<"c", ".", "t", "x", "t">>
NameJ == <<"j", "s", "o", "n">>
NameH == <<".", "j", "s", "o", "n">>
Names == {NameA, NameB, NameT, NameJ, NameH}

JsonSuffix == <<".", "j", "s", "o", "n">>

\* String.prototype.endsWith(suf)
EndsWith(s, suf) ==
    /\ Len(s) >= Len(suf)
    /\ SubSeq(s, Len(s) - Len(suf) + 1, Len(s)) = suf

\* File texts: two well-formed slide documents and one truncated text.
Text1   == "{\"title\":\"one\"}"
Text2   == "{\"title\":\"two\"}"
TextBad == "{\"title\":"
Texts   == {Text1, Text2, TextBad}

NoData == [title |-> ""]

\* JSON.parse(text): the parsed value, or a thrown SyntaxError.
JSONparse(t) ==
    CASE t = Text1 -> [threw |-> FALSE, val |-> [title |-> "one"]]
      [] t = Text2 -> [threw |-> FALSE, val |-> [title |-> "two"]]
      [] OTHER     -> [threw |-> TRUE,  val |-> NoData]

\* files = fs.readdirSync(slidesDir).filter(f => f.endsWith(".json"))
\* (FilterJsonNone: the listing taken unfiltered.)
FilterJsonNone(names) == names
FilterJson(names) == SelectSeq(names, LAMBDA f : EndsWith(f, JsonSuffix))

\* ------------------------------------------------------------------ state
VARIABLES
    dir,        \* the slides directory: listing order of [name, text]
    slides,     \* the collection, in the store's natural order
    origin,     \* history: origin[i] = [run, idx] of the create call behind slides[i]
    seed,       \* the Seeder process: locals of seedSlides, console output, connection
    reqs,       \* the Query Service's requests, in flight and answered (a bag)
    serverUp    \* the Query Service process is alive

vars == <<dir, slides, origin, seed, reqs, serverUp>>

Range(f) == {f[i] : i \in DOMAIN f}

\* All listings of at most n names drawn from the set names.
RECURSIVE Listings(_, _)
Listings(names, n) ==
    IF n = 0 THEN {<<>>}
    ELSE LET shorter == Listings(names, n - 1)
         IN shorter \cup {Append(l, x) : l \in {m \in shorter : Len(m) = n - 1},
                                          x \in names}

DistinctNames(l) == \A i, j \in DOMAIN l : l[i] = l[j] => i = j

DirNames == [i \in DOMAIN dir |-> dir[i].name]

FileText(name) == (CHOOSE e \in Range(dir) : e.name = name).text

\* ------------------------------------------------------------ the Seeder
Emit(s, ev, arg) == [s EXCEPT !.trace = Append(@, [ev |-> ev, arg |-> arg])]

\* catch (err) { console.error(...); await mongoose.connection.close(); }
Catch(s, why) ==
    [Emit(Emit(s, "error", 0), "close", 0) EXCEPT !.pc = "closingErr", !.err = why]

\* The for loop from file i of s.files up to its next await: either the
\* Slide.create of file i, or (the list exhausted) the close of line 39.
\* Three variants with a slip come first: LoopContinue goes on to the next
\* file after a malformed one, LoopNoAwait does not await Slide.create,
\* LoopSkipSeeded leaves out a file whose content the collection already holds.
RECURSIVE LoopContinue(_, _, _)
LoopContinue(s, i, readOk) ==
    IF i > Len(s.files)
    THEN [Emit(Emit(s, "success", 0), "close", 0)
            EXCEPT !.pc = "closing", !.idx = i, !.won = @ \cup {s.run}]
    ELSE LET s1 == Emit([s EXCEPT !.idx = i], "read", i)
             p  == JSONparse(FileText(s.files[i]))
         IN  IF ~readOk THEN Catch(s1, "readfile")
             ELSE IF p.threw
             THEN LoopContinue([Emit(s1, "error", 0) EXCEPT !.err = "parse"], i + 1, readOk)
             ELSE [Emit(s1, "create", i)
                     EXCEPT !.pc = "creating",
                            !.calls = @ \cup {[idx |-> i, data |-> p.val, st |-> "sent"]}]
RECURSIVE LoopSkipSeeded(_, _, _)
LoopSkipSeeded(s, i, readOk) ==
    IF i > Len(s.files)
    THEN [Emit(Emit(s, "success", 0), "close", 0)
            EXCEPT !.pc = "closing", !.idx = i, !.won = @ \cup {s.run}]
    ELSE LET s1 == Emit([s EXCEPT !.idx = i], "read", i)
             p  == JSONparse(FileText(s.files[i]))
         IN  IF ~readOk THEN Catch(s1, "readfile")
             ELSE IF p.threw THEN Catch(s1, "parse")
             ELSE IF \E k \in DOMAIN slides : slides[k].data = p.val
             THEN LoopSkipSeeded(s1, i + 1, readOk)
             ELSE [Emit(s1, "create", i)
                     EXCEPT !.pc = "creating",
                            !.calls = @ \cup {[idx |-> i, data |-> p.val, st |-> "sent"]}]
RECURSIVE LoopNoAwait(_, _, _)
LoopNoAwait(s, i, readOk) ==
    IF i > Len(s.files)
    THEN [Emit(Emit(s, "success", 0), "close", 0)
            EXCEPT !.pc = "closing", !.idx = i, !.won = @ \cup {s.run}]
    ELSE LET s1 == Emit([s EXCEPT !.idx = i], "read", i)
             p  == JSONparse(FileText(s.files[i]))
         IN  IF ~readOk THEN Catch(s1, "readfile")
             ELSE IF p.threw THEN Catch(s1, "parse")
             ELSE LoopNoAwait(
                    Emit([Emit(s1, "create", i)
                            EXCEPT !.calls = @ \cup {[idx |-> i, data |-> p.val, st |-> "sent"]}],
                         "inserted", i),
                    i + 1, readOk)
Loop(s, i, readOk) ==
    IF i > Len(s.files)
    THEN [Emit(Emit(s, "success", 0), "close", 0)
            EXCEPT !.pc = "closing", !.idx = i, !.won = @ \cup {s.run}]
    ELSE LET s1 == Emit([s EXCEPT !.idx = i], "read", i)
             p  == JSONparse(FileText(s.files[i]))
         IN  IF ~readOk THEN Catch(s1, "readfile")
             ELSE IF p.threw THEN Catch(s1, "parse")
             ELSE [Emit(s1, "create", i)
                     EXCEPT !.pc = "creating",
                            !.calls = @ \cup {[idx |-> i, data |-> p.val, st |-> "sent"]}]

\* Lines 17-26: after the connection is up, list the directory; return early
\* (without closing) when no file qualifies, else enter the loop.
\* (AfterConnectClosing: the early return releasing the connection.)
AfterConnectClosing(s, dirOk, readOk) ==
    LET s1 == [Emit(s, "connected", 0) EXCEPT !.connOpen = TRUE]
    IN  IF ~dirOk THEN Catch(s1, "readdir")
        ELSE LET fs == FilterJson(DirNames)
                 s2 == Emit([s1 EXCEPT !.files = fs], "found", Len(fs))
             IN  IF Len(fs) = 0
                 THEN [Emit(Emit(s2, "warn", 0), "close", 0) EXCEPT !.pc = "closingErr"]
                 ELSE Loop(s2, 1, readOk)
AfterConnect(s, dirOk, readOk) ==
    LET s1 == [Emit(s, "connected", 0) EXCEPT !.connOpen = TRUE]
    IN  IF ~dirOk THEN Catch(s1, "readdir")
        ELSE LET fs == FilterJson(DirNames)
                 s2 == Emit([s1 EXCEPT !.files = fs], "found", Len(fs))
             IN  IF Len(fs) = 0
                 THEN [Emit(s2, "warn", 0) EXCEPT !.pc = "done"]
                 ELSE Loop(s2, 1, readOk)

Fresh(run, won, coll) ==
    [pc |-> "connecting", run |-> run, files |-> <<>>, idx |-> 0, calls |-> {},
     trace |-> <<>>, err |-> "none", connOpen |-> FALSE, won |-> won, base |-> coll]

Ended == seed.pc \in {"idle", "done", "crashed"}

\* `node seedSlides.js`: seedSlides() is called and awaits mongoose.connect.
SeedStart(maxRuns) ==
    /\ Ended
    /\ seed.run < maxRuns
    /\ seed' = Fresh(seed.run + 1, seed.won, slides)
    /\ UNCHANGED <<dir, slides, origin, reqs, serverUp>>

\* mongoose.connect settles; the run goes on to its next await.
ConnectSettle ==
    /\ seed.pc = "connecting"
    /\ \E ok, dirOk, readOk \in BOOLEAN :
         seed' = IF ok THEN AfterConnect(seed, dirOk, readOk)
                       ELSE Catch(seed, "connect")
    /\ UNCHANGED <<dir, slides, origin, reqs, serverUp>>

\* The store assigns the identifier at insertion time.
NewId(coll) == Len(coll) + 1

\* Slide.create(data) on the store's side: one new document holding data.
Insert(coll, data) == Append(coll, [id |-> NewId(coll), data |-> data])

\* The store performs (or rejects) one outstanding Slide.create.
StoreInsert ==
    /\ \E c \in seed.calls :
         /\ c.st = "sent"
         /\ \E ok \in BOOLEAN :
              IF ok
              THEN /\ slides' = Insert(slides, c.data)
                   /\ origin' = Append(origin, [run |-> seed.run, idx |-> c.idx])
                   /\ seed' = [seed EXCEPT !.calls = (@ \ {c}) \cup {[c EXCEPT !.st = "stored"]}]
              ELSE /\ seed' = [seed EXCEPT !.calls = (@ \ {c}) \cup {[c EXCEPT !.st = "failed"]}]
                   /\ UNCHANGED <<slides, origin>>
    /\ UNCHANGED <<dir, reqs, serverUp>>

\* await Slide.create(data) resumes: log the file and go round the loop, or
\* land in the catch block.
CreateSettle ==
    /\ seed.pc = "creating"
    /\ \E c \in seed.calls :
         /\ c.idx = seed.idx
         /\ c.st # "sent"
         /\ \E readOk \in BOOLEAN :
              LET s0 == [seed EXCEPT !.calls = @ \ {c}]
              IN  seed' = IF c.st = "stored"
                          THEN Loop(Emit(s0, "inserted", c.idx), c.idx + 1, readOk)
                          ELSE Catch(s0, "create")
    /\ UNCHANGED <<dir, slides, origin, reqs, serverUp>>

\* await mongoose.connection.close() of line 39 settles (inside the try).
CloseSettle ==
    /\ seed.pc = "closing"
    /\ \E ok \in BOOLEAN :
         seed' = IF ok THEN [seed EXCEPT !.pc = "done", !.connOpen = FALSE]
                       ELSE Catch(seed, "close")
    /\ UNCHANGED <<dir, slides, origin, reqs, serverUp>>

\* await mongoose.connection.close() of line 42 settles (inside the catch):
\* nothing catches its rejection.
CatchCloseSettle ==
    /\ seed.pc = "closingErr"
    /\ \E ok \in BOOLEAN :
         seed' = IF ok THEN [seed EXCEPT !.pc = "done", !.connOpen = FALSE]
                       ELSE [seed EXCEPT !.pc = "crashed"]
    /\ UNCHANGED <<dir, slides, origin, reqs, serverUp>>

\* ------------------------------------------------------ the Query Service
WellFormed(n) == [wellFormed |-> TRUE, n |-> n]
Malformed     == [wellFormed |-> FALSE, n |-> 0]

NoResult == [err |-> FALSE, docs |-> <<>>]

\* Slide.find(): every document, or a rejection.
StoreFind(coll, ok) ==
    IF ok THEN [err |-> FALSE, docs |-> coll] ELSE [err |-> TRUE, docs |-> <<>>]

\* Slide.findById(id): the matching document (none: null, here <<>>), or a
\* rejection; an identifier that cannot be cast to the store's format rejects.
\* (StoreFindByIdAny: the query sent without its identifier filter.)
StoreFindByIdAny(coll, id, ok) ==
    IF ~ok \/ ~id.wellFormed THEN [err |-> TRUE, docs |-> <<>>]
    ELSE [err |-> FALSE, docs |-> IF coll = <<>> THEN <<>> ELSE <<coll[1]>>]
StoreFindById(coll, id, ok) ==
    IF ~ok \/ ~id.wellFormed THEN [err |-> TRUE, docs |-> <<>>]
    ELSE [err |-> FALSE, docs |-> SelectSeq(coll, LAMBDA d : d.id = id.n)]

Response(status, tag, docs) == [status |-> status, tag |-> tag, docs |-> docs]

\* router.get("/"): what the handler sends once Slide.find() has settled, and
\* whether an exception leaves the handler.
\* (ListHandlerEmptyNotFound: an empty result answered like a missing slide;
\* ListHandlerNoCatch: the handler without its try/catch.)
ListHandlerEmptyNotFound(r) ==
    IF r.err THEN [sent |-> <<Response(500, "error", <<>>)>>, threw |-> FALSE]
    ELSE IF r.docs = <<>>
    THEN [sent |-> <<Response(404, "Slide not found", <<>>)>>, threw |-> FALSE]
    ELSE [sent |-> <<Response(200, "slides", r.docs)>>, threw |-> FALSE]
ListHandlerNoCatch(r) ==
    IF r.err THEN [sent |-> <<>>, threw |-> TRUE]
    ELSE [sent |-> <<Response(200, "slides", r.docs)>>, threw |-> FALSE]
ListHandler(r) ==
    IF r.err THEN [sent |-> <<Response(500, "error", <<>>)>>, threw |-> FALSE]
    ELSE [sent |-> <<Response(200, "slides", r.docs)>>, threw |-> FALSE]

\* router.get("/:id"): the same for Slide.findById(req.params.id).
\* (GetHandlerNoReturn: line 20 without its return.)
GetHandlerNoReturn(r) ==
    IF r.err THEN [sent |-> <<Response(500, "error", <<>>)>>, threw |-> FALSE]
    ELSE IF r.docs = <<>>
    THEN [sent |-> <<Response(404, "Slide not found", <<>>), Response(200, "slide", <<>>)>>,
          threw |-> FALSE]
    ELSE [sent |-> <<Response(200, "slide", r.docs)>>, threw |-> FALSE]
GetHandler(r) ==
    IF r.err THEN [sent |-> <<Response(500, "error", <<>>)>>, threw |-> FALSE]
    ELSE IF r.docs = <<>>
    THEN [sent |-> <<Response(404, "Slide not found", <<>>)>>, threw |-> FALSE]
    ELSE [sent |-> <<Response(200, "slide", r.docs)>>, threw |-> FALSE]

\* The documents List responses have shown the client so far.
Listed ==
    UNION {UNION {Range(r.resp[k].docs) : k \in DOMAIN r.resp} :
             r \in {q \in BagToSet(reqs) : q.kind = "list"}}

Request(kind, id, expect) ==
    [kind |-> kind, id |-> id, st |-> "pending", resp |-> <<>>, res |-> NoResult,
     expect |-> expect]

\* GET / arrives: the handler calls Slide.find() and awaits it.
ListArrive ==
    /\ serverUp
    /\ BagCardinality(reqs) < MaxReqs
    /\ reqs' = reqs (+) SetToBag({Request("list", Malformed, {})})
    /\ UNCHANGED <<dir, slides, origin, seed, serverUp>>

\* The identifiers clients ask for: every assigned one, a well-formed one the
\* store has not assigned yet, and a malformed one.
AskedIds(coll) ==
    {WellFormed(n) : n \in 1..(Len(coll) + 1)} \cup {Malformed}

\* GET /:id arrives: the handler calls Slide.findById(req.params.id); expect
\* records the document a List response has shown under that identifier.
GetArrive ==
    /\ serverUp
    /\ BagCardinality(reqs) < MaxReqs
    /\ \E id \in AskedIds(slides) :
         reqs' = reqs (+) SetToBag({Request("get", id,
                    {d \in Listed : id.wellFormed /\ d.id = id.n})})
    /\ UNCHANGED <<dir, slides, origin, seed, serverUp>>

\* Request q is answered: the store result r went through handler outcome h.
Answered(q, r, h) == [q EXCEPT !.st = "done", !.res = r, !.resp = h.sent]

Settle(q, r, h) ==
    /\ reqs' = (reqs (-) SetToBag({q})) (+) SetToBag({Answered(q, r, h)})
    /\ serverUp' = (serverUp /\ ~h.threw)

\* Slide.find() settles and the GET / handler finishes.
ListSettle ==
    /\ serverUp
    /\ \E q \in BagToSet(reqs) :
         /\ q.kind = "list" /\ q.st = "pending"
         /\ \E ok \in BOOLEAN :
              LET r == StoreFind(slides, ok) IN Settle(q, r, ListHandler(r))
    /\ UNCHANGED <<dir, slides, origin, seed>>

\* Slide.findById() settles and the GET /:id handler finishes.
GetSettle ==
    /\ serverUp
    /\ \E q \in BagToSet(reqs) :
         /\ q.kind = "get" /\ q.st = "pending"
         /\ \E ok \in BOOLEAN :
              LET r == StoreFindById(slides, q.id, ok) IN Settle(q, r, GetHandler(r))
    /\ UNCHANGED <<dir, slides, origin, seed>>

\* ---------------------------------------------------------- specification
Idle == [Fresh(0, {}, <<>>) EXCEPT !.pc = "idle"]

\* The directories over the given listings: each file with one of the texts.
Dirs(listings, texts) ==
    UNION {{[i \in DOMAIN l |-> [name |-> l[i], text |-> txt[i]]] : txt \in [DOMAIN l -> texts]} :
             l \in {m \in listings : DistinctNames(m)}}

Start(d) ==
    /\ dir = d
    /\ slides = <<>>
    /\ origin = <<>>
    /\ seed = Idle
    /\ reqs = EmptyBag
    /\ serverUp = TRUE

SeederNext(maxRuns) ==
    \/ SeedStart(maxRuns)
    \/ ConnectSettle
    \/ StoreInsert
    \/ CreateSettle
    \/ CloseSettle
    \/ CatchCloseSettle

\* The Seeder alone, over every directory of at most MaxFiles entries.
Init == \E d \in Dirs(Listings(Names, MaxFiles), Texts) : Start(d)

Next == SeederNext(MaxRuns)

Spec == Init /\ [][Next]_vars

\* The Query Service serving while a Seeder run inserts, over the
\* directories listed as the first few of a.json, b.json, c.txt, json.
ServiceInit ==
    \E d \in Dirs({l \in Listings(Names, MaxServedFiles) :
                     l = SubSeq(<<NameA, NameB, NameT, NameJ>>, 1, Len(l))},
                  Texts) : Start(d)

ServiceNext ==
    \/ SeederNext(MaxServedRuns)
    \/ ListArrive
    \/ GetArrive
    \/ ListSettle
    \/ GetSettle

ServiceSpec == ServiceInit /\ [][ServiceNext]_vars

\* ------------------------------------------------------- reading a state
Has(ev)   == \E i \in DOMAIN seed.trace : seed.trace[i].ev = ev
Count(ev) == Cardinality({i \in DOMAIN seed.trace : seed.trace[i].ev = ev})

\* The arguments of the events ev of this run, in the order they happened.
Args(ev) ==
    LET evs == SelectSeq(seed.trace, LAMBDA e : e.ev = ev)
    IN  [k \in DOMAIN evs |-> evs[k].arg]

UpTo(n) == [k \in 1..n |-> k]

\* The names of Names that end in ".json", and the directory's qualifying
\* files in listing order.
Qualifying == {NameA, NameB, NameH}
QualifyingFiles == SelectSeq(DirNames, LAMBDA f : f \in Qualifying)

Parsed(name) == JSONparse(FileText(name)).val

\* Where the documents run r has persisted sit in the collection, and those
\* documents, in collection order.
RunIdx(r) == SelectSeq([p \in DOMAIN origin |-> p], LAMBDA p : origin[p].run = r)
RunDocs(r) == [k \in DOMAIN RunIdx(r) |-> slides[RunIdx(r)[k]]]

DoneReqs == {r \in BagToSet(reqs) : r.st = "done"}

\* ------------------------------------------------------------------ claims

\* C1: after a Seeder run in which connect and every insert succeeded, List
\* returns the slides that were there before the run followed by exactly one
\* new document per file ending in ".json", in listing order, each holding
\* that file's parsed content under a fresh identifier; other files add none.
C1_SeedThenList ==
    seed.run \in seed.won =>
        LET q   == QualifyingFiles
            new == SubSeq(slides, Len(seed.base) + 1, Len(slides))
        IN  /\ slides = seed.base \o new
            /\ ListHandler(StoreFind(slides, TRUE)).sent
                 = <<Response(200, "slides", seed.base \o new)>>
            /\ Len(new) = Len(q)
            /\ \A i \in DOMAIN new : i <= Len(q) => new[i].data = Parsed(q[i])
            /\ \A i \in DOMAIN new : \A j \in DOMAIN slides :
                 new[i].id = slides[j].id => j = Len(seed.base) + i

C1_Witness ==
    /\ seed.run \in seed.won /\ seed.pc = "done"
    /\ Len(seed.base) > 0
    /\ \E i \in DOMAIN dir : dir[i].name = NameT /\ dir[i].text = Text1
    /\ Len(QualifyingFiles) = 2

\* C2: when the Nth qualifying file is malformed JSON, files 1..N-1 are
\* persisted and stay persisted, file N is read but never inserted, files
\* beyond N are never read, parsed or inserted, and the run reports an error
\* and no final success.
C2_MalformedNth ==
    seed.err = "parse" =>
        LET n    == seed.idx
            mine == RunDocs(seed.run)
        IN  /\ seed.files = QualifyingFiles
            /\ n \in DOMAIN seed.files
            /\ JSONparse(FileText(seed.files[n])).threw
            /\ Args("read") = UpTo(n)
            /\ Args("create") = UpTo(n - 1)
            /\ Args("inserted") = UpTo(n - 1)
            /\ Len(mine) = n - 1
            /\ \A i \in 1..(n - 1) : mine[i].data = Parsed(seed.files[i])
            /\ slides = seed.base \o mine
            /\ seed.calls = {}
            /\ Has("error") /\ ~Has("success")

C2_Witness ==
    /\ seed.err = "parse" /\ seed.pc = "done"
    /\ seed.idx = 2 /\ Len(seed.files) = 3
    /\ ~JSONparse(FileText(seed.files[3])).threw
    /\ Len(slides) = Len(seed.base) + 1

\* C3: with the connection up and no file ending in ".json", the run ends
\* after the warning with nothing inserted, no error, no success signal, no
\* close call, and the connection still open.
C3_EmptyListing ==
    /\ (seed.pc = "done" /\ Has("warn")) =>
         /\ seed.trace = <<[ev |-> "connected", arg |-> 0], [ev |-> "found", arg |-> 0],
                           [ev |-> "warn", arg |-> 0]>>
         /\ QualifyingFiles = <<>>
         /\ slides = seed.base
         /\ seed.calls = {}
         /\ seed.err = "none"
         /\ seed.connOpen
    /\ (Has("found") /\ QualifyingFiles = <<>>) => (seed.pc = "done" /\ Has("warn"))

C3_Witness ==
    /\ seed.pc = "done" /\ Has("warn") /\ seed.connOpen
    /\ Len(dir) = 2
    /\ \A i \in DOMAIN dir : dir[i].text = Text1

\* C4: two successful runs in a row over the same k qualifying files add 2k
\* documents, k each with the same contents, under pairwise distinct
\* identifiers.
C4_NotIdempotent ==
    \A r \in 1..(seed.run - 1) :
        {r, r + 1} \subseteq seed.won =>
            LET k == Len(QualifyingFiles)
            IN  /\ k > 0
                /\ Len(RunDocs(r)) = k /\ Len(RunDocs(r + 1)) = k
                /\ \A i \in 1..k : RunDocs(r + 1)[i].data = RunDocs(r)[i].data
                /\ Cardinality(Range(RunDocs(r)) \cup Range(RunDocs(r + 1))) = 2 * k
                /\ \A i, j \in DOMAIN slides : slides[i].id = slides[j].id => i = j

C4_Witness ==
    /\ {1, 2} \subseteq seed.won /\ seed.pc = "done"
    /\ Len(QualifyingFiles) = 2
    /\ Len(slides) = 4

\* C9 (as claimed): every run that ends otherwise than by the empty-listing
\* return has called close exactly once, as its last step and right after the
\* error report or the success signal, and no rejection leaves seedSlides.
C9_CloseOnceNoEscape ==
    seed.pc \in {"done", "crashed"} =>
        IF Has("warn")
        THEN seed.pc = "done" /\ Count("close") = 0
        ELSE /\ seed.pc = "done"
             /\ Count("close") = 1
             /\ Count("error") + Count("success") = 1
             /\ seed.trace[Len(seed.trace)].ev = "close"
             /\ seed.trace[Len(seed.trace) - 1].ev \in {"error", "success"}

\* Request q of this state is the one answered in this step, as d.
AnsweredAs(q, d) ==
    /\ q.st = "pending" /\ d.st = "done"
    /\ d.kind = q.kind /\ d.id = q.id /\ d.expect = q.expect
    /\ reqs' = (reqs (-) SetToBag({q})) (+) SetToBag({d})

\* C5: a Get-by-identifier whose identifier an earlier List response showed,
\* and whose store query succeeds, answers 200 with the very document that
\* List response showed (requests whose store call fails are C8's case).
C5_RoundTrip ==
    \A r \in DoneReqs :
        (r.kind = "get" /\ ~r.res.err /\ r.expect # {}) =>
            \E d \in r.expect :
                /\ r.expect = {d}
                /\ r.resp = <<Response(200, "slide", <<d>>)>>

C5_Witness ==
    /\ \E r \in DoneReqs :
         /\ r.kind = "get" /\ ~r.res.err
         /\ \E d \in r.expect : d.id = 1 /\ r.resp = <<Response(200, "slide", <<d>>)>>
    /\ \E l \in DoneReqs : l.kind = "list" /\ l.resp = <<Response(200, "slides", <<slides[1]>>)>>
    /\ Len(slides) = 2 /\ slides[2].data = slides[1].data

\* C6: a Get-by-identifier with a well-formed identifier that no document of
\* the collection has, and whose store query succeeds, sends exactly one
\* response: 404 {message: "Slide not found"}, with no document.
C6_NotFound ==
    [][\A q \in BagToSet(reqs) :
         (/\ q.kind = "get"
          /\ q.id.wellFormed
          /\ \A p \in DOMAIN slides : slides[p].id # q.id.n) =>
             \A d \in BagToSet(reqs') :
                 (AnsweredAs(q, d) /\ ~d.res.err) =>
                     d.resp = <<Response(404, "Slide not found", <<>>)>>]_vars

C6_Witness ==
    /\ Len(slides) > 0
    /\ \E r \in DoneReqs :
         /\ r.kind = "get" /\ r.id.wellFormed /\ ~r.res.err
         /\ \A p \in DOMAIN slides : slides[p].id # r.id.n
         /\ r.resp = <<Response(404, "Slide not found", <<>>)>>

\* C7: a List whose store query succeeds answers 200 with exactly the
\* documents then in the collection, in the store's order; on an empty
\* collection that is 200 with the empty sequence.
C7_ListAll ==
    [][\A q \in BagToSet(reqs) :
         q.kind = "list" =>
             \A d \in BagToSet(reqs') :
                 (AnsweredAs(q, d) /\ ~d.res.err) =>
                     d.resp = <<Response(200, "slides", slides)>>]_vars

C7_Witness ==
    /\ \E r \in DoneReqs : r.kind = "list" /\ r.resp = <<Response(200, "slides", <<>>)>>
    /\ \E r \in DoneReqs : r.kind = "list" /\ Len(r.resp) = 1 /\ Len(r.resp[1].docs) = 2

\* C8: a request whose store call fails (a malformed identifier included)
\* gets exactly one response, 500 {error: message}; the process stays up, the
\* requests in flight can still be answered, and a request whose store call
\* succeeds gets its one 200 or 404 whatever happened to the others.
C8_ErrorsConfined ==
    /\ serverUp
    /\ \A r \in DoneReqs :
         /\ r.res.err => r.resp = <<Response(500, "error", <<>>)>>
         /\ ~r.res.err => Len(r.resp) = 1 /\ r.resp[1].status \in {200, 404}
         /\ (r.kind = "get" /\ ~r.id.wellFormed) => r.res.err
    /\ (\E r \in BagToSet(reqs) : r.st = "pending") => ENABLED (ListSettle \/ GetSettle)

C8_Witness ==
    /\ \E r \in DoneReqs :
         r.kind = "get" /\ ~r.id.wellFormed /\ r.resp = <<Response(500, "error", <<>>)>>
    /\ \E r \in DoneReqs :
         r.kind = "list" /\ Len(r.resp) = 1 /\ r.resp[1].status = 200 /\ Len(r.resp[1].docs) > 0

\* The run and file index behind a document a response carries.
OriginOf(d) == origin[CHOOSE p \in DOMAIN slides : slides[p].id = d.id]

\* The documents of run r among docs, as the file indexes they came from.
FilesSeen(docs, r) ==
    LET from == [k \in DOMAIN docs |-> OriginOf(docs[k])]
        mine == SelectSeq(from, LAMBDA o : o.run = r)
    IN  [k \in DOMAIN mine |-> mine[k].idx]

\* C10: at most one insertion is in flight; the run reads file i+1 only after
\* logging file i, which it does only once document i is stored; so what a
\* run has persisted is at every moment the documents of a prefix of the
\* qualifying files, in listing order, and that is what a List served at that
\* moment returns of the run.
C10_Sequential ==
    LET q     == QualifyingFiles
        steps == SelectSeq(seed.trace, LAMBDA e : e.ev \in {"read", "create", "inserted"})
        kinds == <<"read", "create", "inserted">>
        seen  == ListHandler(StoreFind(slides, TRUE)).sent
    IN  /\ Cardinality(seed.calls) <= 1
        /\ \A k \in DOMAIN steps :
             steps[k] = [ev |-> kinds[((k - 1) % 3) + 1], arg |-> ((k - 1) \div 3) + 1]
        /\ \A i \in Range(Args("inserted")) :
             \E p \in DOMAIN origin : origin[p] = [run |-> seed.run, idx |-> i]
        /\ Len(seen) = 1 /\ seen[1].status = 200
        /\ \A r \in 1..seed.run :
             LET at == RunIdx(r)
                 n  == Len(at)
             IN  /\ [k \in 1..n |-> origin[at[k]].idx] = UpTo(n)
                 /\ n <= Len(q)
                 /\ \A k \in 1..n : k <= Len(q) => slides[at[k]].data = Parsed(q[k])
                 /\ FilesSeen(seen[1].docs, r) = UpTo(n)

C10_Witness ==
    /\ Len(QualifyingFiles) = 3
    /\ seed.run = 2
    /\ Args("inserted") = <<1>>
    /\ \E c \in seed.calls : c.idx = 2 /\ c.st = "stored"
    /\ FilesSeen(ListHandler(StoreFind(slides, TRUE)).sent[1].docs, 2) = <<1, 2>>

====
